---------------------------- MODULE Spec2Model ----------------------------
(*
  react-native-image-editor, OpenHarmony port: ImageEditorModule.cropImage and
  the edit pipeline imageEditor / TargetRect, request-scoped variant (the
  options object handed to cropImage is the working state of the call), and,
  in a section of its own, the module-scope variant, whose working state is
  a pair of module-level variables shared by all calls.

  A call is a JavaScript async function: it runs atomically between two
  suspension points (await), so each action below is the code between two
  awaits, together with the outcome of the awaited platform call.  The
  platform calls (http, fs, image) are the environment: each either succeeds
  or fails, and the scale operation rounds as it likes.

  Numbers.  Sizes and offsets are integers.  The quotients the code forms
  (aspect, xRatio, yRatio, the centring translation) are kept as exact
  fractions [n, d]; on the dimensions used here exact arithmetic and IEEE
  double arithmetic give the same comparisons, ceilings and products.
*)
EXTENDS Integers, Sequences, FiniteSets, TLC

(***************************************************************************)
(* Bounds                                                                  *)
(***************************************************************************)
\* largest crop / display dimension drawn for a request
MaxDim == 3
\* width and height of the decoded source image
SrcDim == 4

Calls == {1, 2}

(***************************************************************************)
(* Exact fractions                                                         *)
(***************************************************************************)
Abs(i) == IF i < 0 THEN -i ELSE i

\* n / d as a fraction with a positive denominator
Frac(n, d) == IF d < 0 THEN [n |-> -n, d |-> -d] ELSE [n |-> n, d |-> d]

FracLE(a, b) == a.n * b.d <= b.n * a.d

FracEq(a, b) == a.n * b.d = b.n * a.d

FracMax(a, b) == IF FracLE(b, a) THEN a ELSE b

\* Math.floor and Math.ceil of a fraction
Floor(a) == a.n \div a.d

Ceil(a) == -((-a.n) \div a.d)

(***************************************************************************)
(* Values                                                                  *)
(***************************************************************************)
\* a size object; has = FALSE stands for undefined
NoSize == [has |-> FALSE, width |-> 0, height |-> 0]

Size(w, h) == [has |-> TRUE, width |-> w, height |-> h]

\* an offset object; hasX / hasY: 'x' in offset, 'y' in offset
NoOffset == [has |-> FALSE, hasX |-> FALSE, hasY |-> FALSE, x |-> 0, y |-> 0]

Offset(x, y) == [has |-> TRUE, hasX |-> TRUE, hasY |-> TRUE, x |-> x, y |-> y]

\* an optional number or string; has = FALSE stands for undefined
NoNum == [has |-> FALSE, v |-> 0]

Num(v) == [has |-> TRUE, v |-> v]

NoStr == [has |-> FALSE, v |-> ""]

Str(s) == [has |-> TRUE, v |-> s]

\* JavaScript truthiness of an optional number and of an optional string
TruthyNum(q) == q.has /\ q.v # 0

TruthyStr(s) == s.has /\ s.v # ""


(***************************************************************************)
(* The source reference: a string, kept as its tokens.  The first token    *)
(* is the scheme prefix, "." is a dot, and the text between two dots (or   *)
(* after the last one) is a single token.                                  *)
(***************************************************************************)
\* uri.startsWith("data:"), uri.startsWith('http')
StartsWithData(uri) == Len(uri) > 0 /\ uri[1] = "data:"

StartsWithHttp(uri) == Len(uri) > 0 /\ uri[1] \in {"http:", "https:"}

\* uris = uri.split('.'); uris.length > 1 ? uris[uris.length-1] : 'jpeg'
FormatOfUri(uri) ==
    LET dots == {i \in 1..Len(uri) : uri[i] = "."}
    IN  IF dots = {} THEN "jpeg"
        ELSE IF Len(uri) \in dots THEN ""
        ELSE uri[Len(uri)]

(***************************************************************************)
(* cropImage: validation and normalisation of the options                  *)
(***************************************************************************)
\* let quality = 90; if (options.quality) quality = Math.floor(options.quality * 100)
\* (a quality q is kept as the integer 100 * q)
QualityPercent(options) ==
    IF TruthyNum(options.quality)
    THEN Floor(Frac(options.quality.v * 100, 100))
    ELSE 90

\* the three early returns of cropImage
Rejected(uri, options) ==
    \/ Len(uri) = 0
    \/ ~options.offset.has
    \/ ~options.size.has
    \/ ~options.offset.hasX
    \/ ~options.offset.hasY
    \/ options.size.width = 0
    \/ options.size.height = 0
    \/ QualityPercent(options) > 100
    \/ QualityPercent(options) < 0

\* newOptions after the assignments that follow `let newOptions = options`,
\* newOptions being the object target
Normalized(target, uri, options) ==
    [target EXCEPT
        !.size = options.size,
        !.offset = options.offset,
        !.quality = Num(QualityPercent(options) * 100),
        !.displaySize = IF options.displaySize.has THEN options.displaySize ELSE @,
        !.resizeMode = IF TruthyStr(options.resizeMode) THEN options.resizeMode ELSE @,
        !.format = IF TruthyStr(options.format)
                   THEN options.format
                   ELSE Str(FormatOfUri(uri)),
        !.includeBase64 = IF options.includeBase64 THEN TRUE ELSE @]

(***************************************************************************)
(* imageEditor: geometry                                                   *)
(***************************************************************************)
\* if (newOptions.displaySize && newOptions.displaySize.width && newOptions.displaySize.height)
HasDisplay(o) ==
    o.displaySize.has /\ o.displaySize.width # 0 /\ o.displaySize.height # 0

\* aspect === targetAspect
AspectTie(o) ==
    FracEq(Frac(o.size.width, o.size.height),
           Frac(o.displaySize.width, o.displaySize.height))

\* targetAspect <= aspect
TargetAspectLE(o) ==
    FracLE(Frac(o.displaySize.width, o.displaySize.height),
           Frac(o.size.width, o.size.height))

\* if (aspect === targetAspect) newOptions.resizeMode = 'stretch'
ForceStretch(o) ==
    IF AspectTie(o) THEN [o EXCEPT !.resizeMode = Str("stretch")] ELSE o

\* Math.ceil(w * aspect): the product taken where the quotient is meant
CeilWidthTimesAspect(o, w) == Ceil(Frac(w * o.size.width, o.size.height))

\* Math.ceil(targetSize.width / aspect) with targetSize.width = w
CeilWidthOverAspect(o, w) == Ceil(Frac(w * o.size.height, o.size.width))

\* Math.ceil(targetSize.height * aspect) with targetSize.height = h
CeilHeightTimesAspect(o, h) == Ceil(Frac(h * o.size.width, o.size.height))

\* TargetRect, resizeMode === 'cover': the region of the secondary crop,
\* centred in the re-measured size scaled; x and y are fractions
CoverRegion(o, scaled) ==
    IF TargetAspectLE(o)
    THEN [x |-> Frac(Abs(scaled.width - o.displaySize.width), 2),
          y |-> Frac(0, 1),
          size |-> Size(o.displaySize.width, o.displaySize.height)]
    ELSE [x |-> Frac(0, 1),
          y |-> Frac(Abs(scaled.height - o.displaySize.height), 2),
          size |-> Size(o.displaySize.width, o.displaySize.height)]

\* TargetRect, resizeMode === 'contain': targetSize
ContainSize(o) ==
    IF TargetAspectLE(o)
    THEN Size(o.displaySize.width, CeilWidthOverAspect(o, o.displaySize.width))
    ELSE Size(CeilHeightTimesAspect(o, o.displaySize.height), o.displaySize.height)

\* center with the two ifs in the other order: the height rule is applied
\* last and overwrites what the width rule has set
CenterSizeHeightLast(o) ==
    LET first == IF o.size.width > o.displaySize.width
                 THEN Size(Ceil(Frac(o.displaySize.height * o.size.width, o.size.height)),
                           o.displaySize.height)
                 ELSE Size(o.size.width, o.size.height)
    IN  IF o.size.height > o.displaySize.height
        THEN Size(o.displaySize.width,
                  Ceil(Frac(o.displaySize.width * o.size.height, o.size.width)))
        ELSE first

\* center with >= where the code tests >: an axis equal to the display's
\* is shrunk too
CenterSizeGE(o) ==
    LET first == IF o.size.height >= o.displaySize.height
                 THEN Size(o.displaySize.width,
                           Ceil(Frac(o.displaySize.width * o.size.height, o.size.width)))
                 ELSE Size(o.size.width, o.size.height)
    IN  IF o.size.width >= o.displaySize.width
        THEN Size(Ceil(Frac(o.displaySize.height * o.size.width, o.size.height)),
                  o.displaySize.height)
        ELSE first

\* TargetRect, resizeMode === 'center': targetSize after the two ifs, the
\* second of which overwrites both dimensions
CenterSize(o) ==
    LET first == IF o.size.height > o.displaySize.height
                 THEN Size(o.displaySize.width,
                           CeilWidthOverAspect(o, o.displaySize.width))
                 ELSE Size(o.size.width, o.size.height)
    IN  IF o.size.width > o.displaySize.width
        THEN Size(CeilHeightTimesAspect(o, o.displaySize.height),
                  o.displaySize.height)
        ELSE first

\* TargetRect(newOptions, resizeScaleSize)
TargetRect(o, scaled) ==
    IF o.resizeMode = Str("cover") THEN CoverRegion(o, scaled)
    ELSE IF o.resizeMode = Str("contain")
    THEN [x |-> Frac(0, 1), y |-> Frac(0, 1), size |-> ContainSize(o)]
    ELSE IF o.resizeMode = Str("center")
    THEN [x |-> Frac(0, 1), y |-> Frac(0, 1), size |-> CenterSize(o)]
    ELSE [x |-> Frac(0, 1), y |-> Frac(0, 1),
          size |-> Size(o.size.width, o.size.height)]

(***************************************************************************)
(* The pixel map operations of the platform                                *)
(***************************************************************************)
\* a region handed to PixelMap.crop lies inside a pixel map of size pm;
\* a fractional offset is truncated to an integer by the call
Fits(x, y, size, pm) ==
    /\ size.width > 0 /\ size.height > 0
    /\ Floor(x) >= 0 /\ Floor(y) >= 0
    /\ Floor(x) + size.width <= pm.width
    /\ Floor(y) + size.height <= pm.height

\* the integer lengths PixelMap.scale may give a length len scaled by ratio:
\* the exact product rounded down or up, and never less than one pixel; a
\* negative factor, when the platform does not refuse it, mirrors the image
Rounded(len, ratio) ==
    LET p == Frac(Abs(len * ratio.n), ratio.d)
    IN  {v \in {Floor(p), Ceil(p)} : v >= 1}

\* the sizes PixelMap.scale(xRatio, yRatio) may leave a pixel map of size pm in
ScaledSizes(pm, xRatio, yRatio) ==
    {Size(w, h) : w \in Rounded(pm.width, xRatio), h \in Rounded(pm.height, yRatio)}

(***************************************************************************)
(* State                                                                   *)
(***************************************************************************)
VARIABLES
    heap,            \* the options objects of the callers, by object
    ref,             \* the options object each call was handed
    uri,             \* the source reference each call was handed
    given,           \* the options of each call as they were when it was made
    pc,              \* where each call is suspended
    boundsCheck,     \* the un-awaited getImageInfo().then(...) of each call
    editorPM,        \* the decoded pixel map of each call
    imageSourceApi,  \* the image source handle of each call
    imagePackerApi,  \* the packer handle of each call
    openFile,        \* the source file handle of each call
    region,          \* the region of the crop a call has issued
    ratio,           \* the factors of the scale a call has issued
    resizeScaleSize, \* the size a call re-measured after its uniform scale
    getImageInfo,    \* the size a call measured before encoding
    performed,       \* the platform operations of a call that succeeded
    failed,          \* the platform operations of a call that failed
    outFile,         \* the output file of each call
    result,          \* what cropImage gave its caller
    newOptions,      \* the module-level options object of the module-scope variant
    moduleResizeScaleSize \* its module-level resizeScaleSize

vars == <<heap, ref, uri, given, pc, boundsCheck, editorPM, imageSourceApi,
          imagePackerApi, openFile, region, ratio, resizeScaleSize,
          getImageInfo, performed, failed, outFile, result, newOptions,
          moduleResizeScaleSize>>

\* the module-level state, which the request-scoped editor does not have
moduleVars == <<newOptions, moduleResizeScaleSize>>

\* the decoded source image
SourceSize == Size(SrcDim, SrcDim)

NoRegion == [x |-> Frac(0, 1), y |-> Frac(0, 1), size |-> NoSize]

NoRatio == [x |-> Frac(0, 1), y |-> Frac(0, 1)]

NoPixelMap == [state |-> "none", width |-> 0, height |-> 0]

Pending == [status |-> "pending", width |-> 0, height |-> 0,
            type |-> "", ext |-> "", quality |-> 0, base64 |-> FALSE]

\* cropImage returned without a value
Undefined == [Pending EXCEPT !.status = "undefined"]

\* cropImage threw (its promise is rejected)
Thrown == [Pending EXCEPT !.status = "rejected"]

\* newOptions as one object for all calls, as a module-level variable is
NewOptionsShared(c) == 1

\* let newOptions: ImageCropData = options -- the working options of a call
\* are the object the call was handed
NewOptionsOf(c) == ref[c]

WorkingOptions(c) == heap[NewOptionsOf(c)]

(***************************************************************************)
(* imageEditor: encoding parameters                                        *)
(***************************************************************************)
\* suffix = suffix === 'jpeg' || suffix === 'jpg' ? 'jpeg' : suffix
Suffix(o) == IF o.format.v \in {"jpeg", "jpg"} THEN "jpeg" ELSE o.format.v

\* the extension of fileName: suffix === 'jpeg' ? 'jpg' : suffix
Extension(o) == IF Suffix(o) = "jpeg" THEN "jpg" ELSE Suffix(o)

\* packOpts.quality: newOptions.quality || 90
PackQuality(o) == IF TruthyNum(o.quality) THEN o.quality.v \div 100 ELSE 90

(***************************************************************************)
(* Steps of a call                                                         *)
(***************************************************************************)
Upd(f, c, v) == [f EXCEPT ![c] = v]

Did(c, op) == performed' = Upd(performed, c, performed[c] \cup {op})

Failed(c, op) == failed' = Upd(failed, c, failed[c] \cup {op})

\* an exception leaves imageEditor and cropImage: the caller's promise rejects
Throw(c) == pc' = Upd(pc, c, "done") /\ result' = Upd(result, c, Thrown)

\* image.createImageSource(imageData); the call then awaits createPixelMap
CreateImageSource(c) ==
    /\ imageSourceApi' = Upd(imageSourceApi, c, "live")
    /\ pc' = Upd(pc, c, "createPixelMap")

\* cropImage up to the first suspension of imageEditor
CropImage(c) ==
    /\ pc[c] = "start"
    /\ LET options == heap[ref[c]]
       IN  /\ given' = Upd(given, c, options)
           /\ IF Rejected(uri[c], options)
              THEN /\ pc' = Upd(pc, c, "done")
                   /\ result' = Upd(result, c, Undefined)
                   /\ UNCHANGED <<heap, openFile, imageSourceApi, performed, failed>>
              ELSE /\ heap' = Upd(heap, NewOptionsOf(c),
                                  Normalized(WorkingOptions(c), uri[c], options))
                   /\ IF StartsWithData(uri[c])
                      THEN /\ pc' = Upd(pc, c, "loadBase")
                           /\ UNCHANGED <<openFile, imageSourceApi, performed,
                                          failed, result>>
                      ELSE IF StartsWithHttp(uri[c])
                      THEN /\ pc' = Upd(pc, c, "loadHttp")
                           /\ UNCHANGED <<openFile, imageSourceApi, performed,
                                          failed, result>>
                      ELSE \E ok \in BOOLEAN :
                           IF ok
                           THEN /\ openFile' = Upd(openFile, c, "open")
                                /\ Did(c, "acquire")
                                /\ CreateImageSource(c)
                                /\ UNCHANGED <<failed, result>>
                           ELSE /\ Failed(c, "acquire")
                                /\ Throw(c)
                                /\ UNCHANGED <<openFile, imageSourceApi, performed>>
    /\ UNCHANGED <<ref, uri, boundsCheck, editorPM, imagePackerApi, region, ratio,
                   resizeScaleSize, getImageInfo, outFile>>
    /\ UNCHANGED moduleVars

\* loadBase resolves
LoadBase(c) ==
    /\ pc[c] = "loadBase"
    /\ Did(c, "acquire")
    /\ CreateImageSource(c)
    /\ UNCHANGED <<heap, ref, uri, given, boundsCheck, editorPM, imagePackerApi,
                   openFile, region, ratio, resizeScaleSize, getImageInfo,
                   failed, outFile, result>>
    /\ UNCHANGED moduleVars

\* the callback of http.request: resolve on ResponseCode.OK, else only log,
\* and the promise of loadHttp is never settled
LoadHttp(c) ==
    /\ pc[c] = "loadHttp"
    /\ \E ok \in BOOLEAN :
        IF ok
        THEN /\ Did(c, "acquire")
             /\ CreateImageSource(c)
             /\ UNCHANGED failed
        ELSE /\ Failed(c, "acquire")
             /\ pc' = Upd(pc, c, "hung")
             /\ UNCHANGED <<imageSourceApi, performed>>
    /\ UNCHANGED <<heap, ref, uri, given, boundsCheck, editorPM, imagePackerApi,
                   openFile, region, ratio, resizeScaleSize, getImageInfo,
                   outFile, result>>
    /\ UNCHANGED moduleVars

\* createPixelMap settles; on success getImageInfo().then(check) is started
\* without being awaited and the primary crop is issued
CreatePixelMap(c) ==
    /\ pc[c] = "createPixelMap"
    /\ \E ok \in BOOLEAN :
        IF ok
        THEN /\ Did(c, "decode")
             /\ editorPM' = Upd(editorPM, c, [state |-> "live",
                                              width |-> SourceSize.width,
                                              height |-> SourceSize.height])
             /\ boundsCheck' = Upd(boundsCheck, c, "pending")
             /\ region' = Upd(region, c,
                    [x |-> Frac(WorkingOptions(c).offset.x, 1),
                     y |-> Frac(WorkingOptions(c).offset.y, 1),
                     size |-> Size(WorkingOptions(c).size.width,
                                   WorkingOptions(c).size.height)])
             /\ pc' = Upd(pc, c, "crop")
             /\ UNCHANGED <<failed, result>>
        ELSE /\ Failed(c, "decode")
             /\ Throw(c)
             /\ UNCHANGED <<performed, editorPM, boundsCheck, region>>
    /\ UNCHANGED <<heap, ref, uri, given, imageSourceApi, imagePackerApi, openFile,
                   ratio, resizeScaleSize, getImageInfo, outFile>>
    /\ UNCHANGED moduleVars

\* the crop region exceeds the decoded image
Exceeds(o, imageInfo) ==
    \/ o.offset.x + o.size.width > imageInfo.width
    \/ o.offset.y + o.size.height > imageInfo.height

\* the callback of the un-awaited getImageInfo(): it logs and returns
BoundsCheck(c) ==
    /\ boundsCheck[c] = "pending"
    /\ boundsCheck' = Upd(boundsCheck, c,
            IF Exceeds(WorkingOptions(c), SourceSize) THEN "logged" ELSE "passed")
    /\ UNCHANGED <<heap, ref, uri, given, pc, editorPM, imageSourceApi,
                   imagePackerApi, openFile, region, ratio, resizeScaleSize,
                   getImageInfo, performed, failed, outFile, result>>
    /\ UNCHANGED moduleVars

\* the size of a live pixel map
PixelMapSize(c) == Size(editorPM[c].width, editorPM[c].height)

Live(size) == [state |-> "live", width |-> size.width, height |-> size.height]

\* editorPM.crop(region) settles: the pixel map becomes the region, or the
\* call fails and leaves it as it was.  A region that does not lie inside
\* the pixel map is refused.  The callers catch the failure and log it.
Crop(c, op) ==
    \E ok \in BOOLEAN :
        IF ok /\ Fits(region[c].x, region[c].y, region[c].size, PixelMapSize(c))
        THEN /\ editorPM' = Upd(editorPM, c, Live(region[c].size))
             /\ Did(c, op)
             /\ UNCHANGED failed
        ELSE /\ Failed(c, op)
             /\ UNCHANGED <<editorPM, performed>>

\* editorPM.scale(ratio.x, ratio.y) settles; a failure is not caught
Scale(c, next) ==
    \E ok \in BOOLEAN :
        IF ok /\ ScaledSizes(PixelMapSize(c), ratio[c].x, ratio[c].y) # {}
        THEN /\ \E s \in ScaledSizes(PixelMapSize(c), ratio[c].x, ratio[c].y) :
                    editorPM' = Upd(editorPM, c, Live(s))
             /\ Did(c, "scale")
             /\ pc' = Upd(pc, c, next)
             /\ UNCHANGED <<failed, result>>
        ELSE /\ Failed(c, "scale")
             /\ Throw(c)
             /\ UNCHANGED <<editorPM, performed>>

\* the primary crop settles; then the scale stage is entered: the mode is
\* resolved and the first platform call of the mode is issued
PrimaryCrop(c) ==
    /\ pc[c] = "crop"
    /\ Crop(c, "crop")
    /\ LET o == WorkingOptions(c)
           o2 == ForceStretch(o)
           xRatio == Frac(o.displaySize.width, o.size.width)
           yRatio == Frac(o.displaySize.height, o.size.height)
       IN  IF ~HasDisplay(o)
           THEN /\ pc' = Upd(pc, c, "measure")
                /\ UNCHANGED <<heap, ratio, region, resizeScaleSize>>
           ELSE /\ heap' = Upd(heap, NewOptionsOf(c), o2)
                /\ IF o2.resizeMode = Str("stretch")
                   THEN /\ ratio' = Upd(ratio, c, [x |-> xRatio, y |-> yRatio])
                        /\ pc' = Upd(pc, c, "scaleStretch")
                        /\ UNCHANGED <<region, resizeScaleSize>>
                   ELSE IF o2.resizeMode = Str("cover")
                   THEN /\ resizeScaleSize' = Upd(resizeScaleSize, c,
                                Size(o.displaySize.width, o.displaySize.height))
                        /\ IF \/ o.displaySize.width # o.size.width
                              \/ o.displaySize.height # o.size.height
                           THEN /\ ratio' = Upd(ratio, c,
                                        [x |-> FracMax(xRatio, yRatio),
                                         y |-> FracMax(xRatio, yRatio)])
                                /\ pc' = Upd(pc, c, "scaleCover")
                                /\ UNCHANGED region
                           ELSE /\ region' = Upd(region, c,
                                        TargetRect(o2, resizeScaleSize'[c]))
                                /\ pc' = Upd(pc, c, "crop2")
                                /\ UNCHANGED ratio
                   ELSE /\ ratio' = Upd(ratio, c,
                                [x |-> Frac(TargetRect(o2, NoSize).size.width,
                                            o.size.width),
                                 y |-> Frac(TargetRect(o2, NoSize).size.height,
                                            o.size.height)])
                        /\ region' = Upd(region, c, TargetRect(o2, NoSize))
                        /\ pc' = Upd(pc, c, "scaleTarget")
                        /\ UNCHANGED resizeScaleSize
    /\ UNCHANGED <<ref, uri, given, boundsCheck, imageSourceApi, imagePackerApi,
                   openFile, getImageInfo, outFile, result>>
    /\ UNCHANGED moduleVars

\* stretch: await editorPM.scale(xRatio, yRatio)
ScaleStretch(c) ==
    /\ pc[c] = "scaleStretch"
    /\ Scale(c, "measure")
    /\ UNCHANGED <<heap, ref, uri, given, boundsCheck, imageSourceApi,
                   imagePackerApi, openFile, region, ratio, resizeScaleSize,
                   getImageInfo, outFile>>
    /\ UNCHANGED moduleVars

\* contain, center and any other mode: await editorPM.scale(xRatio, yRatio)
\* with the ratios of the size TargetRect returned
ScaleTarget(c) ==
    /\ pc[c] = "scaleTarget"
    /\ Scale(c, "measure")
    /\ UNCHANGED <<heap, ref, uri, given, boundsCheck, imageSourceApi,
                   imagePackerApi, openFile, region, ratio, resizeScaleSize,
                   getImageInfo, outFile>>
    /\ UNCHANGED moduleVars

\* cover: await editorPM.scale(ratio, ratio)
ScaleCover(c) ==
    /\ pc[c] = "scaleCover"
    /\ Scale(c, "remeasure")
    /\ UNCHANGED <<heap, ref, uri, given, boundsCheck, imageSourceApi,
                   imagePackerApi, openFile, region, ratio, resizeScaleSize,
                   getImageInfo, outFile>>
    /\ UNCHANGED moduleVars

\* cover: the size is re-measured, TargetRect is computed from it and the
\* secondary crop is issued
Remeasure(c) ==
    /\ pc[c] = "remeasure"
    /\ \E ok \in BOOLEAN :
        IF ok
        THEN /\ Did(c, "remeasure")
             /\ resizeScaleSize' = Upd(resizeScaleSize, c, PixelMapSize(c))
             /\ region' = Upd(region, c,
                    TargetRect(WorkingOptions(c), resizeScaleSize'[c]))
             /\ pc' = Upd(pc, c, "crop2")
             /\ UNCHANGED <<failed, result>>
        ELSE /\ Failed(c, "remeasure")
             /\ Throw(c)
             /\ UNCHANGED <<performed, resizeScaleSize, region>>
    /\ UNCHANGED <<heap, ref, uri, given, boundsCheck, editorPM, imageSourceApi,
                   imagePackerApi, openFile, ratio, getImageInfo, outFile>>
    /\ UNCHANGED moduleVars

\* cover: the secondary crop settles
SecondaryCrop(c) ==
    /\ pc[c] = "crop2"
    /\ Crop(c, "crop2")
    /\ pc' = Upd(pc, c, "measure")
    /\ UNCHANGED <<heap, ref, uri, given, boundsCheck, imageSourceApi,
                   imagePackerApi, openFile, region, ratio, resizeScaleSize,
                   getImageInfo, outFile, result>>
    /\ UNCHANGED moduleVars

\* the final size is measured, the packer is created and packing is issued
Measure(c) ==
    /\ pc[c] = "measure"
    /\ \E ok \in BOOLEAN :
        IF ok
        THEN /\ Did(c, "measure")
             /\ getImageInfo' = Upd(getImageInfo, c, PixelMapSize(c))
             /\ imagePackerApi' = Upd(imagePackerApi, c, "live")
             /\ pc' = Upd(pc, c, "packing")
             /\ UNCHANGED <<failed, result>>
        ELSE /\ Failed(c, "measure")
             /\ Throw(c)
             /\ UNCHANGED <<performed, getImageInfo, imagePackerApi>>
    /\ UNCHANGED <<heap, ref, uri, given, boundsCheck, editorPM, imageSourceApi,
                   openFile, region, ratio, resizeScaleSize, outFile>>
    /\ UNCHANGED moduleVars

\* packing settles: then (create, write, close the output file), catch (log),
\* finally (close the source file); the three handles are released and the
\* result is returned
Packing(c) ==
    /\ pc[c] = "packing"
    /\ \E packOk \in BOOLEAN, createOk \in BOOLEAN, writeOk \in BOOLEAN :
        /\ ~packOk => createOk /\ writeOk
        /\ ~createOk => writeOk
        /\ performed' = Upd(performed, c, performed[c]
                \cup (IF packOk THEN {"pack"} ELSE {})
                \cup (IF packOk /\ createOk THEN {"create"} ELSE {})
                \cup (IF packOk /\ createOk /\ writeOk THEN {"write"} ELSE {}))
        /\ failed' = Upd(failed, c, failed[c]
                \cup (IF ~packOk THEN {"pack"} ELSE {})
                \cup (IF ~createOk THEN {"create"} ELSE {})
                \cup (IF ~writeOk THEN {"write"} ELSE {}))
        /\ outFile' = Upd(outFile, c,
                IF packOk /\ createOk
                THEN (IF writeOk THEN "written" ELSE "empty")
                ELSE "none")
    /\ openFile' = Upd(openFile, c, IF openFile[c] = "open" THEN "closed" ELSE openFile[c])
    /\ editorPM' = Upd(editorPM, c, [editorPM[c] EXCEPT !.state = "released"])
    /\ imageSourceApi' = Upd(imageSourceApi, c, "released")
    /\ imagePackerApi' = Upd(imagePackerApi, c, "released")
    /\ result' = Upd(result, c,
            [status |-> "resolved",
             width |-> getImageInfo[c].width,
             height |-> getImageInfo[c].height,
             type |-> Suffix(WorkingOptions(c)),
             ext |-> Extension(WorkingOptions(c)),
             quality |-> PackQuality(WorkingOptions(c)),
             base64 |-> WorkingOptions(c).includeBase64])
    /\ pc' = Upd(pc, c, "done")
    /\ UNCHANGED <<heap, ref, uri, given, boundsCheck, region, ratio,
                   resizeScaleSize, getImageInfo>>
    /\ UNCHANGED moduleVars

\* a step of call c
Step(c) ==
    \/ CropImage(c)
    \/ LoadBase(c)
    \/ LoadHttp(c)
    \/ CreatePixelMap(c)
    \/ BoundsCheck(c)
    \/ PrimaryCrop(c)
    \/ ScaleStretch(c)
    \/ ScaleCover(c)
    \/ Remeasure(c)
    \/ SecondaryCrop(c)
    \/ ScaleTarget(c)
    \/ Measure(c)
    \/ Packing(c)

Next == \E c \in Calls : Step(c)

(***************************************************************************)
(* Requests                                                                *)
(***************************************************************************)
Options(offset, size, displaySize, resizeMode, quality, format, includeBase64) ==
    [offset |-> offset, size |-> size, displaySize |-> displaySize,
     resizeMode |-> resizeMode, quality |-> quality, format |-> format,
     includeBase64 |-> includeBase64]

Request(u, o) == [uri |-> u, options |-> o]

DataUri == <<"data:", "image/png;base64,AAAA">>

HttpUri == <<"http:", "//host", ".", "org/a", ".", "png">>

FileUri == <<"/data/storage/img", ".", "jpg">>

\* references without a file extension, whose only dot is in the host name
\* or in a directory name
HostDotUri == <<"http:", "//host", ".", "org/a">>

DirDotUri == <<"/data/app", ".", "v1/img">>

\* formats a request names
Formats == {"jpeg", "jpg", "webp"}

\* display sizes with a dimension that is zero or negative
DegenerateDisplays == {Size(0, 2), Size(2, 0), Size(-2, -2), Size(-1, 2)}

\* qualities, in hundredths: 0, 0.01, 1, 1.01 and -0.01
Qualities == {0, 1, 100, 101, -1}

\* requests of the first call: two well-formed ones, one whose region
\* leaves the source image, and malformed ones
RequestsA ==
    { Request(HttpUri, Options(Offset(1, 1), Size(1, 2), Size(2, 2),
                               Str("cover"), Num(50), NoStr, FALSE)),
      Request(FileUri, Options(Offset(0, 0), Size(2, 2), Size(3, 2),
                               Str("contain"), NoNum, Str("png"), TRUE)),
      Request(DataUri, Options(Offset(SrcDim - 1, 0), Size(2, 2), NoSize,
                               NoStr, NoNum, NoStr, FALSE)),
      Request(DataUri, Options(Offset(0, 0), Size(-1, 1), NoSize,
                               NoStr, NoNum, NoStr, FALSE)),
      Request(DataUri, Options(Offset(0, 0), Size(0, 1), NoSize,
                               NoStr, NoNum, NoStr, FALSE)),
      Request(DataUri, Options(NoOffset, Size(1, 1), NoSize,
                               NoStr, NoNum, NoStr, FALSE)),
      Request(DataUri, Options(Offset(0, 0), NoSize, NoSize,
                               NoStr, NoNum, NoStr, FALSE)),
      Request(<< >>, Options(Offset(0, 0), Size(1, 1), NoSize,
                             NoStr, NoNum, NoStr, FALSE)) }
    \cup { Request(DataUri, Options(Offset(0, 0), Size(1, 1), NoSize,
                                    NoStr, Num(q), NoStr, FALSE)) :
               q \in Qualities }
    \cup { Request(DataUri, Options(Offset(0, 0), Size(1, 1), NoSize,
                                    NoStr, NoNum, Str(f), FALSE)) :
               f \in Formats }
    \cup { Request(u, Options(Offset(0, 0), Size(1, 1), NoSize,
                              NoStr, NoNum, NoStr, FALSE)) :
               u \in {HostDotUri, DirDotUri} }
    \cup { Request(DataUri, Options(Offset(0, 0), Size(1, 1), disp,
                                    Str("cover"), NoNum, NoStr, FALSE)) :
               disp \in DegenerateDisplays }

\* requests of the second call
RequestsB ==
    { Request(DataUri, Options(Offset(0, 1), Size(2, 1), Size(1, 1),
                               Str("cover"), Num(100), Str("jpg"), FALSE)),
      Request(FileUri, Options(Offset(0, 0), Size(1, 1), Size(2, 2),
                               Str("center"), NoNum, NoStr, FALSE)) }

\* requests of the first call to the module-scope variant
RequestsModule ==
    { Request(HttpUri, Options(Offset(1, 1), Size(1, 2), Size(2, 2),
                               Str("cover"), Num(50), NoStr, FALSE)),
      Request(FileUri, Options(Offset(0, 0), Size(2, 2), Size(3, 2),
                               Str("contain"), NoNum, Str("png"), TRUE)),
      Request(DataUri, Options(Offset(1, 0), Size(1, 1), Size(2, 2),
                               NoStr, NoNum, NoStr, FALSE)),
      Request(DataUri, Options(Offset(SrcDim - 1, 0), Size(2, 2), NoSize,
                               NoStr, NoNum, NoStr, FALSE)),
      Request(<< >>, Options(Offset(0, 0), Size(1, 1), NoSize,
                             NoStr, NoNum, NoStr, FALSE)) }

\* requests of a call made alone: every crop size, display size and mode
Dims == 1..MaxDim

Modes == {NoStr, Str("stretch"), Str("cover"), Str("contain"), Str("center")}

RequestsGeo ==
    { Request(u, Options(off, Size(cw, ch), disp, mode, NoNum, NoStr, FALSE)) :
        u \in {DataUri, HttpUri, FileUri},
        off \in {Offset(0, 0), Offset(SrcDim - 1, SrcDim - 1)},
        cw \in Dims, ch \in Dims,
        disp \in {NoSize} \cup {Size(dw, dh) : dw \in Dims, dh \in Dims},
        mode \in Modes }

\* requests of a call made alone whose crop region is wider than the source
RequestsOver ==
    { Request(DataUri, Options(Offset(0, 0), Size(SrcDim + 1, 2), Size(dw, dh),
                               Str("cover"), NoNum, NoStr, FALSE)) :
        dw \in Dims, dh \in Dims }

(***************************************************************************)
(* The module-scope variant of the editor: newOptions and resizeScaleSize  *)
(* are variables of the module, which every call writes and reads.         *)
(***************************************************************************)
\* let newOptions = {offset: {x: 0, y: 0}, size: {width: 0, height: 0},
\*                   resizeMode: 'cover', includeBase64: false}
InitialNewOptions ==
    Options(Offset(0, 0), Size(0, 0), NoSize, Str("cover"), NoNum, NoStr, FALSE)

\* let resizeScaleSize = {width: 0, height: 0}
InitialResizeScaleSize == Size(0, 0)

\* TargetRect(): as the TargetRect of the request-scoped editor, on the
\* module's newOptions and resizeScaleSize, but for its last statement,
\* targetRegion.size = targetSize, which gives the cover region the crop size
ModuleTargetRect(o, scaled) ==
    IF o.resizeMode = Str("cover")
    THEN [x |-> CoverRegion(o, scaled).x,
          y |-> CoverRegion(o, scaled).y,
          size |-> Size(o.size.width, o.size.height)]
    ELSE IF o.resizeMode = Str("contain")
    THEN [x |-> Frac(0, 1), y |-> Frac(0, 1), size |-> ContainSize(o)]
    ELSE IF o.resizeMode = Str("center")
    THEN [x |-> Frac(0, 1), y |-> Frac(0, 1), size |-> CenterSize(o)]
    ELSE [x |-> Frac(0, 1), y |-> Frac(0, 1),
          size |-> Size(o.size.width, o.size.height)]

\* the variables of the request-scoped editor that this variant does not have
scopedVars == <<heap, ref, openFile, resizeScaleSize>>

\* cropImage up to the first suspension of getUriBuffer: the fields of the
\* request are assigned onto the module's newOptions
ModuleCropImage(c) ==
    /\ pc[c] = "start"
    /\ LET options == heap[ref[c]]
       IN  /\ given' = Upd(given, c, options)
           /\ IF Rejected(uri[c], options)
              THEN /\ pc' = Upd(pc, c, "done")
                   /\ result' = Upd(result, c, Undefined)
                   /\ UNCHANGED newOptions
              ELSE /\ newOptions' = Normalized(newOptions, uri[c], options)
                   /\ pc' = Upd(pc, c,
                            IF StartsWithData(uri[c]) THEN "loadBase"
                            ELSE IF StartsWithHttp(uri[c]) THEN "loadHttp"
                            ELSE "localPath")
                   /\ UNCHANGED result
    /\ UNCHANGED <<uri, boundsCheck, editorPM, imageSourceApi, imagePackerApi,
                   region, ratio, getImageInfo, performed, failed, outFile,
                   moduleResizeScaleSize>>
    /\ UNCHANGED scopedVars

\* getUriBuffer, uri.startsWith("data:"): loadBase resolves
ModuleLoadBase(c) == LoadBase(c)

\* getUriBuffer, uri.startsWith('http'): the callback of http.request
ModuleLoadHttp(c) == LoadHttp(c)

\* getUriBuffer, any other reference: imageBuffer = uri, and imageEditor
\* hands the path to image.createImageSource
ModuleLocalPath(c) ==
    /\ pc[c] = "localPath"
    /\ CreateImageSource(c)
    /\ UNCHANGED <<uri, given, boundsCheck, editorPM, imagePackerApi, region,
                   ratio, getImageInfo, performed, failed, outFile, result>>
    /\ UNCHANGED moduleVars
    /\ UNCHANGED scopedVars

\* createPixelMap settles; the region of the primary crop is read from the
\* module's newOptions
ModuleCreatePixelMap(c) ==
    /\ pc[c] = "createPixelMap"
    /\ \E ok \in BOOLEAN :
        IF ok
        THEN /\ Did(c, "decode")
             /\ editorPM' = Upd(editorPM, c, Live(SourceSize))
             /\ boundsCheck' = Upd(boundsCheck, c, "pending")
             /\ region' = Upd(region, c,
                    [x |-> Frac(newOptions.offset.x, 1),
                     y |-> Frac(newOptions.offset.y, 1),
                     size |-> Size(newOptions.size.width, newOptions.size.height)])
             /\ pc' = Upd(pc, c, "crop")
             /\ UNCHANGED <<failed, result>>
        ELSE /\ Failed(c, "decode")
             /\ Throw(c)
             /\ UNCHANGED <<performed, editorPM, boundsCheck, region>>
    /\ UNCHANGED <<uri, given, imageSourceApi, imagePackerApi, ratio,
                   getImageInfo, outFile>>
    /\ UNCHANGED moduleVars
    /\ UNCHANGED scopedVars

\* the callback of the un-awaited getImageInfo(): it logs and returns
ModuleBoundsCheck(c) ==
    /\ boundsCheck[c] = "pending"
    /\ boundsCheck' = Upd(boundsCheck, c,
            IF Exceeds(newOptions, SourceSize) THEN "logged" ELSE "passed")
    /\ UNCHANGED <<uri, given, pc, editorPM, imageSourceApi, imagePackerApi,
                   region, ratio, getImageInfo, performed, failed, outFile, result>>
    /\ UNCHANGED moduleVars
    /\ UNCHANGED scopedVars

\* the primary crop settles; the scale stage is entered on the module's
\* newOptions as they are now
ModulePrimaryCrop(c) ==
    /\ pc[c] = "crop"
    /\ Crop(c, "crop")
    /\ LET o == newOptions
           o2 == ForceStretch(o)
           xRatio == Frac(o.displaySize.width, o.size.width)
           yRatio == Frac(o.displaySize.height, o.size.height)
       IN  IF ~HasDisplay(o)
           THEN /\ pc' = Upd(pc, c, "measure")
                /\ UNCHANGED <<newOptions, ratio, region>>
           ELSE /\ newOptions' = o2
                /\ IF o2.resizeMode = Str("stretch")
                   THEN /\ ratio' = Upd(ratio, c, [x |-> xRatio, y |-> yRatio])
                        /\ pc' = Upd(pc, c, "scaleStretch")
                        /\ UNCHANGED region
                   ELSE IF o2.resizeMode = Str("cover")
                   THEN IF \/ o.displaySize.width # o.size.width
                           \/ o.displaySize.height # o.size.height
                        THEN /\ ratio' = Upd(ratio, c,
                                     [x |-> FracMax(xRatio, yRatio),
                                      y |-> FracMax(xRatio, yRatio)])
                             /\ pc' = Upd(pc, c, "scaleCover")
                             /\ UNCHANGED region
                        ELSE /\ region' = Upd(region, c,
                                     ModuleTargetRect(o2, moduleResizeScaleSize))
                             /\ pc' = Upd(pc, c, "crop2")
                             /\ UNCHANGED ratio
                   ELSE /\ ratio' = Upd(ratio, c,
                                [x |-> Frac(ModuleTargetRect(o2, NoSize).size.width,
                                            o.size.width),
                                 y |-> Frac(ModuleTargetRect(o2, NoSize).size.height,
                                            o.size.height)])
                        /\ region' = Upd(region, c, ModuleTargetRect(o2, NoSize))
                        /\ pc' = Upd(pc, c, "scaleTarget")
    /\ UNCHANGED <<uri, given, boundsCheck, imageSourceApi, imagePackerApi,
                   getImageInfo, outFile, result, moduleResizeScaleSize>>
    /\ UNCHANGED scopedVars

\* stretch: await editorPM.scale(xRatio, yRatio)
ModuleScaleStretch(c) == ScaleStretch(c)

\* cover: await editorPM.scale(ratio, ratio)
ModuleScaleCover(c) == ScaleCover(c)

\* cover: the callback of getImageInfo() assigns the module's resizeScaleSize
ModuleRemeasure(c) ==
    /\ pc[c] = "remeasure"
    /\ \E ok \in BOOLEAN :
        IF ok
        THEN /\ Did(c, "remeasure")
             /\ moduleResizeScaleSize' = PixelMapSize(c)
             /\ pc' = Upd(pc, c, "targetRect")
             /\ UNCHANGED <<failed, result>>
        ELSE /\ Failed(c, "remeasure")
             /\ Throw(c)
             /\ UNCHANGED <<performed, moduleResizeScaleSize>>
    /\ UNCHANGED <<uri, given, boundsCheck, editorPM, imageSourceApi,
                   imagePackerApi, region, ratio, getImageInfo, outFile, newOptions>>
    /\ UNCHANGED scopedVars

\* cover: the call resumes, TargetRect() reads the module's state and the
\* secondary crop is issued
ModuleCoverTarget(c) ==
    /\ pc[c] = "targetRect"
    /\ region' = Upd(region, c, ModuleTargetRect(newOptions, moduleResizeScaleSize))
    /\ pc' = Upd(pc, c, "crop2")
    /\ UNCHANGED <<uri, given, boundsCheck, editorPM, imageSourceApi,
                   imagePackerApi, ratio, getImageInfo, performed, failed,
                   outFile, result>>
    /\ UNCHANGED moduleVars
    /\ UNCHANGED scopedVars

\* cover: the secondary crop settles
ModuleSecondaryCrop(c) == SecondaryCrop(c)

\* contain, center and any other mode: await editorPM.scale(xRatio, yRatio)
ModuleScaleTarget(c) == ScaleTarget(c)

\* the final size is measured; suffix and packOpts are read from the
\* module's newOptions (result[c] holds them until the result is built), the
\* output file is created, the packer is created and packing is issued
ModuleMeasure(c) ==
    /\ pc[c] = "measure"
    /\ \E ok \in BOOLEAN, createOk \in BOOLEAN :
        IF ok /\ createOk
        THEN /\ performed' = Upd(performed, c, performed[c] \cup {"measure", "create"})
             /\ getImageInfo' = Upd(getImageInfo, c, PixelMapSize(c))
             /\ result' = Upd(result, c,
                    [Pending EXCEPT !.type = Suffix(newOptions),
                                    !.ext = Extension(newOptions),
                                    !.quality = PackQuality(newOptions)])
             /\ outFile' = Upd(outFile, c, "empty")
             /\ imagePackerApi' = Upd(imagePackerApi, c, "live")
             /\ pc' = Upd(pc, c, "packing")
             /\ UNCHANGED failed
        ELSE /\ Failed(c, IF ok THEN "create" ELSE "measure")
             /\ Throw(c)
             /\ UNCHANGED <<performed, getImageInfo, outFile, imagePackerApi>>
    /\ UNCHANGED <<uri, given, boundsCheck, editorPM, imageSourceApi, region, ratio>>
    /\ UNCHANGED moduleVars
    /\ UNCHANGED scopedVars

\* packing settles: then (write, close the output file), catch (log); the
\* three handles are released and the result is built, with base64 when the
\* module's newOptions.includeBase64 is set now
ModulePacking(c) ==
    /\ pc[c] = "packing"
    /\ \E packOk \in BOOLEAN, writeOk \in BOOLEAN :
        /\ ~packOk => writeOk
        /\ performed' = Upd(performed, c, performed[c]
                \cup (IF packOk THEN {"pack"} ELSE {})
                \cup (IF packOk /\ writeOk THEN {"write"} ELSE {}))
        /\ failed' = Upd(failed, c, failed[c]
                \cup (IF ~packOk THEN {"pack"} ELSE {})
                \cup (IF ~writeOk THEN {"write"} ELSE {}))
        /\ outFile' = Upd(outFile, c, IF packOk /\ writeOk THEN "written" ELSE "empty")
    /\ editorPM' = Upd(editorPM, c, [editorPM[c] EXCEPT !.state = "released"])
    /\ imageSourceApi' = Upd(imageSourceApi, c, "released")
    /\ imagePackerApi' = Upd(imagePackerApi, c, "released")
    /\ result' = Upd(result, c,
            [result[c] EXCEPT !.status = "resolved",
                              !.width = getImageInfo[c].width,
                              !.height = getImageInfo[c].height,
                              !.base64 = newOptions.includeBase64])
    /\ pc' = Upd(pc, c, "done")
    /\ UNCHANGED <<uri, given, boundsCheck, region, ratio, getImageInfo>>
    /\ UNCHANGED moduleVars
    /\ UNCHANGED scopedVars

\* a step of call c in the module-scope variant
ModuleStep(c) ==
    \/ ModuleCropImage(c)
    \/ ModuleLoadBase(c)
    \/ ModuleLoadHttp(c)
    \/ ModuleLocalPath(c)
    \/ ModuleCreatePixelMap(c)
    \/ ModuleBoundsCheck(c)
    \/ ModulePrimaryCrop(c)
    \/ ModuleScaleStretch(c)
    \/ ModuleScaleCover(c)
    \/ ModuleRemeasure(c)
    \/ ModuleCoverTarget(c)
    \/ ModuleSecondaryCrop(c)
    \/ ModuleScaleTarget(c)
    \/ ModuleMeasure(c)
    \/ ModulePacking(c)

ModuleNext == \E c \in Calls : ModuleStep(c)

(***************************************************************************)
(* Specifications                                                          *)
(***************************************************************************)
\* the state of the calls before any of them has run
Fresh ==
    /\ given = [c \in Calls |-> heap[ref[c]]]
    /\ boundsCheck = [c \in Calls |-> "idle"]
    /\ editorPM = [c \in Calls |-> NoPixelMap]
    /\ imageSourceApi = [c \in Calls |-> "none"]
    /\ imagePackerApi = [c \in Calls |-> "none"]
    /\ openFile = [c \in Calls |-> "none"]
    /\ region = [c \in Calls |-> NoRegion]
    /\ ratio = [c \in Calls |-> NoRatio]
    /\ resizeScaleSize = [c \in Calls |-> NoSize]
    /\ getImageInfo = [c \in Calls |-> NoSize]
    /\ performed = [c \in Calls |-> {}]
    /\ failed = [c \in Calls |-> {}]
    /\ outFile = [c \in Calls |-> "none"]
    /\ result = [c \in Calls |-> Pending]
    /\ newOptions = InitialNewOptions
    /\ moduleResizeScaleSize = InitialResizeScaleSize

\* two calls in flight together; the second is handed an options object of
\* its own, or the object the first was handed
Init ==
    /\ \E a \in RequestsA, b \in RequestsB, shared \in BOOLEAN :
        /\ uri = (1 :> a.uri) @@ (2 :> b.uri)
        /\ ref = (1 :> 1) @@ (2 :> IF shared THEN 1 ELSE 2)
        /\ heap = (1 :> a.options) @@ (2 :> b.options)
    /\ pc = [c \in Calls |-> "start"]
    /\ Fresh

Spec == Init /\ [][Next]_vars

\* the event loop runs every continuation that is ready, and every platform
\* call settles
LiveSpec == Spec /\ \A c \in Calls : WF_vars(Step(c))

\* one call made alone
InitGeo ==
    /\ \E a \in RequestsGeo \cup RequestsOver :
        /\ uri = (1 :> a.uri) @@ (2 :> << >>)
        /\ heap = (1 :> a.options) @@ (2 :> a.options)
    /\ ref = (1 :> 1) @@ (2 :> 2)
    /\ pc = (1 :> "start") @@ (2 :> "absent")
    /\ Fresh

SpecGeo == InitGeo /\ [][Next]_vars

\* the module-scope variant: two calls, made one after the other or running
\* together, each with an options object of its own
InitModule ==
    /\ \E a \in RequestsModule, b \in RequestsB :
        /\ uri = (1 :> a.uri) @@ (2 :> b.uri)
        /\ heap = (1 :> a.options) @@ (2 :> b.options)
    /\ ref = (1 :> 1) @@ (2 :> 2)
    /\ pc = [c \in Calls |-> "start"]
    /\ Fresh

SpecModule == InitModule /\ [][ModuleNext]_vars

(***************************************************************************)
(* Properties                                                              *)
(***************************************************************************)
\* the operations a call has asked of the platform
Attempted(c) == performed[c] \cup failed[c]

\* call c has got past the validation of cropImage
Accepted(c) == pc[c] \notin {"start", "absent"} /\ result[c].status # "undefined"

\* no other call was handed the options object of call c
OwnObject(c) == \A d \in Calls \ {c} : ref[d] # ref[c]

\* the working options a call derives from its own request: the normalised
\* options, with the mode forced to stretch on an aspect tie once the scale
\* stage has been entered
OwnOptions(c) ==
    LET derived == Normalized(given[c], uri[c], given[c])
    IN  IF HasDisplay(derived) /\ "crop" \in Attempted(c)
        THEN ForceStretch(derived)
        ELSE derived

\* C1: two calls in flight together, each handed an options object of its
\* own: at every stage the crop region, display size, resize mode, format and
\* quality a call works with, the region and the factors of the platform call
\* it has issued, and the size it re-measured, are those derived from its own
\* request, whatever the other call has done in between.
C1_RequestScopedState ==
    \A c \in Calls :
        Accepted(c) /\ OwnObject(c) =>
            /\ WorkingOptions(c) = OwnOptions(c)
            /\ pc[c] = "crop" =>
                    /\ region[c].x = Frac(given[c].offset.x, 1)
                    /\ region[c].y = Frac(given[c].offset.y, 1)
                    /\ region[c].size = Size(given[c].size.width, given[c].size.height)
            /\ pc[c] = "scaleCover" =>
                    ratio[c].x = FracMax(
                        Frac(given[c].displaySize.width, given[c].size.width),
                        Frac(given[c].displaySize.height, given[c].size.height))
            /\ pc[c] = "crop2" =>
                    /\ resizeScaleSize[c] = PixelMapSize(c)
                    /\ region[c] = TargetRect(OwnOptions(c), PixelMapSize(c))
            /\ result[c].status = "resolved" =>
                    /\ result[c].type = Suffix(OwnOptions(c))
                    /\ result[c].quality = PackQuality(OwnOptions(c))

\* C1 witness: both calls are at their secondary crop, each on an object of
\* its own, with different working options and different regions
C1_Witness ==
    /\ ref[1] # ref[2]
    /\ pc[1] = "crop2" /\ pc[2] = "crop2"
    /\ WorkingOptions(1) # WorkingOptions(2)
    /\ region[1] # region[2]

\* C2: once the source is decoded, a crop region that exceeds it makes the
\* call fail without any crop, scale, encode or write, and without a
\* success result.
C2_BoundsViolationAborts ==
    \A c \in Calls :
        "decode" \in performed[c] /\ Exceeds(given[c], SourceSize) =>
            /\ Attempted(c) \cap {"crop", "scale", "crop2", "pack", "create", "write"} = {}
            /\ result[c].status # "resolved"

\* the requests the validator is to refuse: no source reference, no offset,
\* no size, or a width or height that is zero or negative
Malformed(u, o) ==
    \/ Len(u) = 0
    \/ ~o.offset.has
    \/ ~o.size.has
    \/ o.size.width <= 0
    \/ o.size.height <= 0

\* C3: a malformed request returns at once: nothing is asked of the
\* platform, no handle is acquired and no file is created.
C3_MalformedShortCircuits ==
    \A c \in Calls :
        pc[c] \notin {"start", "absent"} /\ Malformed(uri[c], given[c]) =>
            /\ Attempted(c) = {}
            /\ imageSourceApi[c] = "none"
            /\ openFile[c] = "none"
            /\ outFile[c] = "none"

\* C4: when a call has completed, by a result or by an exception, its pixel
\* map, image source and packer are not live any more and its source file
\* is not open.
C4_ReleasedOnEveryExit ==
    \A c \in Calls :
        pc[c] = "done" =>
            /\ editorPM[c].state # "live"
            /\ imageSourceApi[c] # "live"
            /\ imagePackerApi[c] # "live"
            /\ openFile[c] # "open"

\* C5: a call one of whose crops, scale, encode or file write failed does
\* not complete with a success result.
C5_FailurePropagates ==
    \A c \in Calls :
        failed[c] \cap {"crop", "crop2", "scale", "pack", "write"} # {} =>
            result[c].status # "resolved"

\* C6: a call whose source could not be acquired eventually completes with
\* a failure.
C6_AcquireFailureCompletes ==
    \A c \in Calls :
        ("acquire" \in failed[c]) ~> (pc[c] = "done" /\ result[c].status = "rejected")

\* the request of call c has a crop size and a display size of positive
\* dimensions
Sized(c) ==
    /\ given[c].size.has /\ given[c].size.width > 0 /\ given[c].size.height > 0
    /\ given[c].displaySize.has
    /\ given[c].displaySize.width > 0 /\ given[c].displaySize.height > 0

DisplaySizeOf(c) == Size(given[c].displaySize.width, given[c].displaySize.height)

CropSizeOf(c) == Size(given[c].size.width, given[c].size.height)

\* the size of the image cropImage has produced
OutputSize(c) == Size(result[c].width, result[c].height)

One == Frac(1, 1)

\* C7: a call in cover mode (cover requested, aspect ratios different) that
\* returns a result returns an image of exactly the display size.
C7_CoverOutputIsDisplaySize ==
    \A c \in Calls :
        /\ Accepted(c) /\ Sized(c)
        /\ given[c].resizeMode = Str("cover") /\ ~AspectTie(given[c])
        /\ result[c].status = "resolved"
        => OutputSize(c) = DisplaySizeOf(c)

\* C8: on an aspect tie, whatever mode was requested, the mode the scale
\* stage works with is stretch, the one scale issued has the factors
\* displaySize.width / cropSize.width and displaySize.height /
\* cropSize.height, no secondary crop is issued, and the image returned has
\* the display size.
C8_AspectTieStretches ==
    \A c \in Calls :
        Accepted(c) /\ Sized(c) /\ AspectTie(given[c]) /\ "crop" \in Attempted(c) =>
            /\ WorkingOptions(c).resizeMode = Str("stretch")
            /\ pc[c] \in {"scaleStretch", "measure", "packing", "done"}
            /\ "crop2" \notin Attempted(c)
            /\ pc[c] = "scaleStretch" =>
                    /\ ratio[c].x = Frac(given[c].displaySize.width, given[c].size.width)
                    /\ ratio[c].y = Frac(given[c].displaySize.height, given[c].size.height)
            /\ result[c].status = "resolved" => OutputSize(c) = DisplaySizeOf(c)

\* call c has computed the scale target of mode m and issued the scale
AtTarget(c, m) ==
    /\ Sized(c)
    /\ pc[c] = "scaleTarget"
    /\ WorkingOptions(c).resizeMode = Str(m)

\* C9: in contain mode the target size lies within the display size, one of
\* its dimensions is the display's and the other is the ceiling of the
\* aspect-preserving length.
C9_ContainTarget ==
    \A c \in Calls :
        AtTarget(c, "contain") =>
            LET t == region[c].size
                crop == CropSizeOf(c)
                disp == DisplaySizeOf(c)
            IN  /\ t.width <= disp.width
                /\ t.height <= disp.height
                /\ \/ /\ t.width = disp.width
                      /\ t.height = Ceil(Frac(disp.width * crop.height, crop.width))
                   \/ /\ t.height = disp.height
                      /\ t.width = Ceil(Frac(disp.height * crop.width, crop.height))

\* C9 witness: a contain target one of whose dimensions was rounded up
C9_Witness ==
    \E c \in Calls :
        /\ AtTarget(c, "contain")
        /\ region[c].size.width = given[c].displaySize.width
        /\ region[c].size.height * given[c].size.width
                > given[c].displaySize.width * given[c].size.height
        /\ region[c].size.height < given[c].displaySize.height

\* the request of call c asks for center and its crop size does not exceed
\* its display size in either dimension
CenterWithin(c) ==
    /\ Accepted(c) /\ Sized(c)
    /\ given[c].resizeMode = Str("center")
    /\ given[c].size.width <= given[c].displaySize.width
    /\ given[c].size.height <= given[c].displaySize.height

\* call c has issued a scale
ScaleIssued(c) == pc[c] \in {"scaleStretch", "scaleCover", "scaleTarget"}

NoModeGiven(c) == ~TruthyStr(given[c].resizeMode)

\* the factor of the uniform scale of cover for the request of call c
CoverRatio(c) ==
    FracMax(Frac(given[c].displaySize.width, given[c].size.width),
            Frac(given[c].displaySize.height, given[c].size.height))

\* C11: a request with a display size of positive dimensions and no resize
\* mode is resolved as the same request with mode cover is: one uniform
\* scale by the larger of the two ratios, then a secondary crop by the cover
\* region; on an aspect tie one stretch scale.
C11_NoModeIsCover ==
    \A c \in Calls :
        Accepted(c) /\ Sized(c) /\ NoModeGiven(c) =>
            /\ ScaleIssued(c) /\ ~AspectTie(given[c]) =>
                    /\ pc[c] = "scaleCover"
                    /\ ratio[c].x = CoverRatio(c)
                    /\ ratio[c].y = CoverRatio(c)
            /\ ScaleIssued(c) /\ AspectTie(given[c]) => pc[c] = "scaleStretch"
            /\ pc[c] = "crop2" =>
                    region[c] = CoverRegion(WorkingOptions(c), PixelMapSize(c))
            /\ result[c].status = "resolved" /\ ~AspectTie(given[c]) =>
                    "crop2" \in Attempted(c)

\* call c has been made with a quality of q hundredths in a request that is
\* well formed otherwise, on an options object of its own
QualityGiven(c, q) ==
    /\ pc[c] \notin {"start", "absent"}
    /\ OwnObject(c)
    /\ ~Malformed(uri[c], given[c])
    /\ given[c].quality = Num(q)

\* C12: a quality of exactly 0 is accepted and the image encoded with
\* percent 0; a quality of exactly 1 is accepted and the image encoded with
\* percent 100; the qualities 1.01 and -0.01 are refused before anything is
\* asked of the platform.
C12_QualityEndpoints ==
    \A c \in Calls :
        /\ QualityGiven(c, 0) =>
                /\ Accepted(c)
                /\ result[c].status = "resolved" => result[c].quality = 0
        /\ QualityGiven(c, 100) =>
                /\ Accepted(c)
                /\ result[c].status = "resolved" => result[c].quality = 100
        /\ QualityGiven(c, 101) \/ QualityGiven(c, -1) =>
                /\ ~Accepted(c)
                /\ Attempted(c) = {}
                /\ imageSourceApi[c] = "none" /\ openFile[c] = "none"
                /\ outFile[c] = "none"

\* the request of call c has a display size with both dimensions positive
DisplayUsable(c) ==
    /\ given[c].displaySize.has
    /\ given[c].displaySize.width > 0
    /\ given[c].displaySize.height > 0

\* C13: the scale stage runs only for a display size that is present with
\* both dimensions positive: a call whose display size is absent, or has a
\* dimension that is zero or negative, issues no scale and no secondary
\* crop, and returns an image of the size of its primary crop.
C13_ScaleStageGate ==
    \A c \in Calls :
        Accepted(c) /\ ~DisplayUsable(c) =>
            /\ ~ScaleIssued(c)
            /\ Attempted(c) \cap {"scale", "crop2"} = {}
            /\ result[c].status = "resolved" /\ "crop" \in performed[c] =>
                    OutputSize(c) = CropSizeOf(c)

\* the file extension of a source reference: the text after the last dot of
\* its last path segment, "" when that segment has no dot
FileExtension(u) ==
    CASE u = HttpUri -> "png"
      [] u = FileUri -> "jpg"
      [] OTHER -> ""

\* the format a request resolves to: the one it names, else the file
\* extension of its source reference, else jpeg
ResolvedFormat(u, o) ==
    IF TruthyStr(o.format) THEN o.format.v
    ELSE IF FileExtension(u) # "" THEN FileExtension(u)
    ELSE "jpeg"

\* C14: an image is encoded in the format its request resolves to: jpeg and
\* jpg give the MIME subtype jpeg and the file extension jpg, any other
\* format F gives subtype F and extension F; a request that names no format
\* takes the file extension of its source reference, and jpeg when the
\* reference has no file extension, dots in a host name or a directory name
\* not counting.
C14_FormatResolution ==
    \A c \in Calls :
        Accepted(c) /\ OwnObject(c) /\ result[c].status = "resolved" =>
            LET f == ResolvedFormat(uri[c], given[c])
            IN  IF f \in {"jpeg", "jpg"}
                THEN result[c].type = "jpeg" /\ result[c].ext = "jpg"
                ELSE result[c].type = f /\ result[c].ext = f

\* call c, in cover mode, has re-measured the scaled image and issued its
\* secondary crop
AtCoverCrop(c) ==
    /\ Accepted(c) /\ Sized(c)
    /\ pc[c] = "crop2"
    /\ WorkingOptions(c).resizeMode = Str("cover")

\* C15: the region of the secondary crop of cover has the display size and
\* at most one offset that is not zero: x = |scaled.width - display.width| / 2
\* and y = 0 when targetAspect <= aspect, y = |scaled.height -
\* display.height| / 2 and x = 0 otherwise, scaled being the size re-measured
\* after the uniform scale; for crop size 100x200 and display size 100x100
\* it is {x: 0, y: 50, size: 100x100}; and it lies inside the scaled image.
C15_CoverRegionInside ==
    /\ LET o == Options(Offset(0, 0), Size(100, 200), Size(100, 100),
                        Str("cover"), NoNum, NoStr, FALSE)
           r == TargetRect(o, Size(100, 200))
       IN  FracEq(r.x, Frac(0, 1)) /\ FracEq(r.y, Frac(50, 1)) /\ r.size = Size(100, 100)
    /\ \A c \in Calls :
        AtCoverCrop(c) =>
            LET scaled == PixelMapSize(c)
                disp == DisplaySizeOf(c)
                r == region[c]
            IN  /\ r.size = disp
                /\ IF TargetAspectLE(given[c])
                   THEN /\ FracEq(r.x, Frac(Abs(scaled.width - disp.width), 2))
                        /\ FracEq(r.y, Frac(0, 1))
                   ELSE /\ FracEq(r.y, Frac(Abs(scaled.height - disp.height), 2))
                        /\ FracEq(r.x, Frac(0, 1))
                /\ FracLE(Frac(r.x.n + disp.width * r.x.d, r.x.d), Frac(scaled.width, 1))
                /\ FracLE(Frac(r.y.n + disp.height * r.y.d, r.y.d), Frac(scaled.height, 1))

\* C16: center only shrinks: the scale target of center is not larger than
\* the crop size in either dimension, and an axis of the crop that does not
\* exceed the display size keeps its length.
C16_CenterOnlyShrinks ==
    \A c \in Calls :
        AtTarget(c, "center") =>
            LET t == region[c].size
                crop == CropSizeOf(c)
                disp == DisplaySizeOf(c)
            IN  /\ t.width <= crop.width
                /\ t.height <= crop.height
                /\ crop.width <= disp.width => t.width = crop.width
                /\ crop.height <= disp.height => t.height = crop.height

\* C17: the two rules of center are applied in sequence, the second
\* overriding the first: with cropSize.height > displaySize.height and
\* cropSize.width > displaySize.width the target is height =
\* displaySize.height, width = ceil(displaySize.height * aspect); with the
\* height condition alone it is width = displaySize.width, height =
\* ceil(displaySize.width / aspect); and no dimension of a target is less
\* than 1.
C17_CenterSequential ==
    \A c \in Calls :
        AtTarget(c, "center") =>
            LET t == region[c].size
                crop == CropSizeOf(c)
                disp == DisplaySizeOf(c)
            IN  /\ crop.height > disp.height /\ crop.width > disp.width =>
                    /\ t.height = disp.height
                    /\ t.width = Ceil(Frac(disp.height * crop.width, crop.height))
                /\ crop.height > disp.height /\ ~(crop.width > disp.width) =>
                    /\ t.width = disp.width
                    /\ t.height = Ceil(Frac(disp.width * crop.height, crop.width))
                /\ t.width >= 1 /\ t.height >= 1

\* C17 witness: a center target for a crop that exceeds the display in both
\* dimensions, set by the second rule and different from what the first rule
\* alone would give
C17_Witness ==
    \E c \in Calls :
        /\ AtTarget(c, "center")
        /\ given[c].size.height > given[c].displaySize.height
        /\ given[c].size.width > given[c].displaySize.width
        /\ region[c].size.height = given[c].displaySize.height
        /\ region[c].size.width # given[c].displaySize.width

\* the options a call to the module-scope variant works with when it is the
\* first call made and runs alone: its request assigned onto the initial
\* newOptions, with the mode forced to stretch on an aspect tie
AloneOptions(c) ==
    LET derived == Normalized(InitialNewOptions, uri[c], given[c])
    IN  IF HasDisplay(derived) THEN ForceStretch(derived) ELSE derived

\* C18: in the module-scope variant the outcome of a call is a function of
\* its own arguments: the region of its primary crop, whether it scales and
\* by which mode, whether the result carries base64, the format it encodes
\* in and the size of its output are those the call has when it is the
\* first call made and runs alone, whatever calls were made before it and
\* whatever call runs between its suspension points.
C18_OutcomeOfOwnArguments ==
    \A c \in Calls :
        Accepted(c) =>
            LET own == AloneOptions(c)
            IN  /\ pc[c] = "crop" =>
                    /\ region[c].x = Frac(own.offset.x, 1)
                    /\ region[c].y = Frac(own.offset.y, 1)
                    /\ region[c].size = Size(own.size.width, own.size.height)
                /\ ScaleIssued(c) =>
                    /\ HasDisplay(own)
                    /\ pc[c] = (IF own.resizeMode = Str("stretch") THEN "scaleStretch"
                                ELSE IF own.resizeMode = Str("cover") THEN "scaleCover"
                                ELSE "scaleTarget")
                /\ result[c].status = "resolved" =>
                    /\ result[c].base64 = own.includeBase64
                    /\ result[c].type = Suffix(own)
                    /\ ~HasDisplay(own) /\ "crop" \in performed[c] =>
                            OutputSize(c) = CropSizeOf(c)

=============================================================================
